---- MODULE Spec2Model ----
(***************************************************************************)
(* libsass4.h, the umbrella header of the clibsass4 target: a comment and  *)
(* twelve #include directives.  The model is the preprocessor working      *)
(* through the umbrella header line by line on behalf of a translation     *)
(* unit that includes it, with or without a libsass3 installation on the   *)
(* default include path.                                                   *)
(***************************************************************************)
EXTENDS Naturals, Sequences, FiniteSets

VARIABLES
    v3Installed,   \* a libsass3 installation is present on the default include path
    umbrella,      \* the lines of the umbrella header being processed
    pass,          \* how many times the translation unit has included the umbrella
    pc,            \* next line of the umbrella to process; 0 when outside of it
    guards,        \* headers whose include guard macro is defined
    bodies,        \* headers whose body was processed, in processing order
    resolved,      \* the files the directives of the current pass resolved to
    noops,         \* directives of the current pass skipped by an include guard
    symbols,       \* declarations visible to the translation unit
    versionMacro,  \* edition whose version macro is defined, "none" before
    diag,          \* <<header, needed>>: header processed while needed was undeclared
    backward,      \* <<header, needed>>: mutual include that went to a guarded header
    v3Seen,        \* libsass3 headers whose content was processed
    probe          \* last declaration the translation unit named after including

vars == <<v3Installed, umbrella, pass, pc, guards, bodies, resolved, noops,
          symbols, versionMacro, diag, backward, v3Seen, probe>>

\* How many times one translation unit includes the umbrella header.
MaxInclusions == 3

-----------------------------------------------------------------------------
(* The umbrella header's text *)

\* the path the engine's own headers use for one another
Bare(name) == <<"sass", name>>

\* the directive written without the vendor root
VendoredUnqualified(name) == Bare(name)

\* The path form of the directives: <libsass4/include/sass/name>.
Vendored(name) == <<"libsass4", "include", "sass", name>>

\* importer.h listed ahead of import.h
IncludesReordered ==
    << Vendored("base.h"), Vendored("enums.h"), Vendored("fwdecl.h"),
       Vendored("version.h"), Vendored("error.h"), Vendored("traces.h"),
       Vendored("values.h"), Vendored("importer.h"), Vendored("import.h"),
       Vendored("function.h"), Vendored("compiler.h"), Vendored("variable.h") >>

\* variable.h forgotten, compiler.h listed twice
IncludesIncomplete ==
    << Vendored("base.h"), Vendored("enums.h"), Vendored("fwdecl.h"),
       Vendored("version.h"), Vendored("error.h"), Vendored("traces.h"),
       Vendored("values.h"), Vendored("import.h"), Vendored("importer.h"),
       Vendored("function.h"), Vendored("compiler.h"), Vendored("compiler.h") >>

\* version.h named by the path the engine's own headers use
IncludesBare ==
    << Vendored("base.h"), Vendored("enums.h"), Vendored("fwdecl.h"),
       Bare("version.h"), Vendored("error.h"), Vendored("traces.h"),
       Vendored("values.h"), Vendored("import.h"), Vendored("importer.h"),
       Vendored("function.h"), Vendored("compiler.h"), Vendored("variable.h") >>

\* the engine's own sass.h order: values.h after the headers that use it
IncludesValuesLate ==
    << Vendored("base.h"), Vendored("enums.h"), Vendored("fwdecl.h"),
       Vendored("version.h"), Vendored("error.h"), Vendored("traces.h"),
       Vendored("import.h"), Vendored("importer.h"), Vendored("values.h"),
       Vendored("function.h"), Vendored("compiler.h"), Vendored("variable.h") >>

\* fwdecl.h moved to the end of the list
IncludesFwdeclLast ==
    << Vendored("base.h"), Vendored("enums.h"),
       Vendored("version.h"), Vendored("error.h"), Vendored("traces.h"),
       Vendored("values.h"), Vendored("import.h"), Vendored("importer.h"),
       Vendored("function.h"), Vendored("compiler.h"), Vendored("variable.h"),
       Vendored("fwdecl.h") >>

\* The twelve #include directives, in the order of the file.
Includes ==
    << Vendored("base.h"), Vendored("enums.h"), Vendored("fwdecl.h"),
       Vendored("version.h"), Vendored("error.h"), Vendored("traces.h"),
       Vendored("values.h"), Vendored("import.h"), Vendored("importer.h"),
       Vendored("function.h"), Vendored("compiler.h"), Vendored("variable.h") >>

Line(kind, path) == [kind |-> kind, path |-> path]

IncludeLines == [i \in 1..Len(Includes) |-> Line("include", Includes[i])]

\* the umbrella with an include guard of its own
UmbrellaGuarded == <<Line("guard", <<"LIBSASS4_H">>)>> \o IncludeLines

\* the umbrella with a macro of its own
UmbrellaDefines == <<Line("define", <<"LIBSASS4">>)>> \o IncludeLines

\* The whole file: the comment, then the directives.
Umbrella == <<Line("comment", <<>>)>> \o IncludeLines

Name(path) == path[Len(path)]

IncludePositions(u) == {i \in 1..Len(u) : u[i].kind = "include"}

HasOwnGuard(u) == \E i \in 1..Len(u) : u[i].kind = "guard"

-----------------------------------------------------------------------------
(* The engine's headers *)

Headers ==
    {"base.h", "enums.h", "fwdecl.h", "version.h", "error.h", "traces.h",
     "values.h", "import.h", "importer.h", "function.h", "compiler.h",
     "variable.h"}

\* The files a libsass3 installation ships.
V3Files == {<<"sass.h">>, Bare("base.h"), Bare("values.h"), Bare("version.h")}

\* The role of each header, in the order the groups are numbered.
RoleOrder ==
    << "base", "enums", "fwdecl", "version", "error", "traces", "values",
       "import", "importer", "function", "compiler", "variable" >>

Role(h) ==
    CASE h = "base.h"     -> "base"
      [] h = "enums.h"    -> "enums"
      [] h = "fwdecl.h"   -> "fwdecl"
      [] h = "version.h"  -> "version"
      [] h = "error.h"    -> "error"
      [] h = "traces.h"   -> "traces"
      [] h = "values.h"   -> "values"
      [] h = "import.h"   -> "import"
      [] h = "importer.h" -> "importer"
      [] h = "function.h" -> "function"
      [] h = "compiler.h" -> "compiler"
      [] h = "variable.h" -> "variable"
      [] OTHER            -> "none"

GroupNo(h) == CHOOSE i \in 0..Len(RoleOrder) :
                 IF Role(h) = "none" THEN i = 0 ELSE i > 0 /\ RoleOrder[i] = Role(h)

\* What a header references beyond base and the forward declarations.
Specific(h) ==
    CASE h = "compiler.h" -> {"error.h", "traces.h", "import.h", "importer.h",
                              "function.h", "values.h"}
      [] h = "importer.h" -> {"import.h", "values.h"}
      [] h = "values.h"   -> {"base.h", "enums.h"}
      [] OTHER            -> {}

\* The headers whose names h references: lower-numbered groups are depended on
\* by higher-numbered ones, and all of those reference base and fwdecl.
Deps(h) ==
    Specific(h) \cup {g \in {"base.h", "fwdecl.h"} : GroupNo(g) < GroupNo(h)}

-----------------------------------------------------------------------------
(* Include resolution *)

\* The default include path comes first; the private directories cannot be
\* prepended to it.
SearchRoots == <<"system", "package", "private">>

FilesIn(root, v3) ==
    CASE root = "system"  -> IF v3 THEN V3Files ELSE {}
      [] root = "package" -> {Vendored(h) : h \in Headers}
      [] root = "private" -> {Bare(h) : h \in Headers}
      [] OTHER            -> {}

Edition(root) == IF root = "system" THEN "v3" ELSE "v4"

NotFound == [edition |-> "none", name |-> "none"]

Resolve(path, v3) ==
    LET hits == {i \in 1..Len(SearchRoots) : path \in FilesIn(SearchRoots[i], v3)}
    IN  IF hits = {} THEN NotFound
        ELSE LET first == CHOOSE i \in hits : \A j \in hits : i <= j
             IN  [edition |-> Edition(SearchRoots[first]), name |-> Name(path)]

-----------------------------------------------------------------------------
(* The translation unit *)

InitWith(u) ==
    /\ v3Installed \in BOOLEAN
    /\ umbrella = u
    /\ pass = 0
    /\ pc = 0
    /\ guards = {}
    /\ bodies = <<>>
    /\ resolved = <<>>
    /\ noops = 0
    /\ symbols = {}
    /\ versionMacro = "none"
    /\ diag = {}
    /\ backward = {}
    /\ v3Seen = {}
    /\ probe = "none"

Init == InitWith(Umbrella)

\* #include of the umbrella header by the translation unit.
StartInclude ==
    /\ pc = 0
    /\ pass < MaxInclusions
    /\ pass' = pass + 1
    /\ pc' = IF HasOwnGuard(umbrella) /\ "libsass4.h" \in guards THEN 0 ELSE 1
    /\ resolved' = <<>>
    /\ noops' = 0
    /\ probe' = "none"
    /\ UNCHANGED <<v3Installed, umbrella, guards, bodies, symbols, versionMacro,
                   diag, backward, v3Seen>>

Advance == pc' = IF pc = Len(umbrella) THEN 0 ELSE pc + 1

\* A line of the umbrella that is not a directive for a header.
ProcessOther(line) ==
    /\ guards' = IF line.kind = "guard" THEN guards \cup {"libsass4.h"} ELSE guards
    /\ symbols' = IF line.kind \in {"guard", "define"}
                  THEN symbols \cup {[sym |-> Name(line.path), from |-> "libsass4.h"]}
                  ELSE symbols
    /\ UNCHANGED <<bodies, resolved, noops, versionMacro, diag, backward, v3Seen>>

\* An #include directive of the umbrella: resolve the path; a guarded file is
\* skipped; otherwise its body is processed, mutual includes first.
ProcessInclude(line) ==
    LET file    == Resolve(line.path, v3Installed)
        h       == file.name
        forward == Deps(h) \ guards
        shadow  == {d \in forward : Resolve(Bare(d), v3Installed).edition = "v3"}
    IN  /\ resolved' = Append(resolved, file)
        /\ IF file.edition = "none" THEN
               /\ diag' = diag \cup {<<"libsass4.h", Name(line.path)>>}
               /\ UNCHANGED <<guards, bodies, noops, symbols, versionMacro,
                              backward, v3Seen>>
           ELSE IF h \in guards THEN
               /\ noops' = noops + 1
               /\ UNCHANGED <<guards, bodies, symbols, versionMacro, diag,
                              backward, v3Seen>>
           ELSE IF file.edition = "v3" THEN
               /\ guards' = guards \cup {h}
               /\ v3Seen' = v3Seen \cup {h}
               /\ versionMacro' = IF h = "version.h" THEN "v3" ELSE versionMacro
               /\ UNCHANGED <<bodies, noops, symbols, diag, backward>>
           ELSE
               /\ guards' = guards \cup {h} \cup shadow
               /\ v3Seen' = v3Seen \cup shadow
               /\ bodies' = Append(bodies, h)
               /\ symbols' = symbols \cup {[sym |-> Role(h), from |-> h]}
               /\ versionMacro' = IF "version.h" \in shadow THEN "v3"
                                  ELSE IF h = "version.h" THEN "v4"
                                  ELSE versionMacro
               /\ diag' = diag \cup {<<h, d>> : d \in forward}
               /\ backward' = backward \cup {<<h, d>> : d \in Deps(h) \cap guards}
               /\ UNCHANGED noops

\* The preprocessor handles the next line of the umbrella header.
ProcessLine ==
    /\ pc \in 1..Len(umbrella)
    /\ IF umbrella[pc].kind = "include"
       THEN ProcessInclude(umbrella[pc])
       ELSE ProcessOther(umbrella[pc])
    /\ Advance
    /\ UNCHANGED <<v3Installed, umbrella, pass, probe>>

\* After the inclusion the translation unit names a declaration of one group.
Probe ==
    /\ pc = 0
    /\ pass > 0
    /\ \E i \in 1..Len(RoleOrder) :
          probe' = IF \E s \in symbols : s.sym = RoleOrder[i]
                   THEN RoleOrder[i] ELSE "undeclared"
    /\ UNCHANGED <<v3Installed, umbrella, pass, pc, guards, bodies, resolved,
                   noops, symbols, versionMacro, diag, backward, v3Seen>>

Next == StartInclude \/ ProcessLine \/ Probe

Spec == Init /\ [][Next]_vars

Done == pass > 0 /\ pc = 0

-----------------------------------------------------------------------------
(* Reordered include lists: the order-sensitivity test exchanges two headers *)

PosOf(u, h) == CHOOSE i \in IncludePositions(u) : Name(u[i].path) = h

Exchange(u, a, b) ==
    LET pa == PosOf(u, a)
        pb == PosOf(u, b)
    IN  [i \in 1..Len(u) |-> IF i = pa THEN u[pb] ELSE IF i = pb THEN u[pa] ELSE u[i]]

InitReorder == \E a \in Headers, b \in Headers : InitWith(Exchange(Umbrella, a, b))

SpecReorder == InitReorder /\ [][Next]_vars

\* Every header of u is listed after every header it references.
Topological(u) ==
    \A i \in IncludePositions(u), j \in IncludePositions(u) :
        j >= i => Name(u[j].path) \notin Deps(Name(u[i].path))

-----------------------------------------------------------------------------
(* Properties *)

Earlier(k) == {bodies[m] : m \in 1..(k - 1)}

EngineSymbols == {[sym |-> Role(h), from |-> h] : h \in Headers}

\* The relation as C1 words it: every header depends on base and on fwdecl.
DepsAsClaimed(h) == Specific(h) \cup ({"base.h", "fwdecl.h"} \ {h})

\* C1 as stated: with every header depending on base and on fwdecl, each
\* header is processed only after all the headers it depends on.
C1_AsStated ==
    \A k \in 1..Len(bodies) : DepsAsClaimed(bodies[k]) \subseteq Earlier(k)

\* C1 (amended): every header from version.h on depends on base and fwdecl,
\* enums.h and fwdecl.h on base only, base.h on nothing; with the other
\* dependencies as given, each header of the list is processed only after
\* all the headers it depends on, and no header meets an undeclared name.
C1_DependenciesFirst ==
    /\ \A k \in 1..Len(bodies) : Deps(bodies[k]) \subseteq Earlier(k)
    /\ diag = {}

C1_Witness ==
    /\ Len(bodies) = 12
    /\ bodies[2] = "enums.h"
    /\ bodies[3] = "fwdecl.h"
    /\ bodies[11] = "compiler.h"

\* C2: the umbrella has exactly twelve directives, one per engine header, and
\* the k-th directive names the header of the k-th role.
C2_RoleOrder ==
    /\ Len(resolved) <= Len(RoleOrder)
    /\ \A i \in 1..Len(resolved) : Role(resolved[i].name) = RoleOrder[i]
    /\ \A i \in 1..Len(resolved), j \in 1..Len(resolved) :
          resolved[i].name = resolved[j].name => i = j
    /\ Done => Len(resolved) = 12
    /\ Cardinality(IncludePositions(umbrella)) = 12

C2_Witness ==
    /\ Done
    /\ Len(resolved) = 12
    /\ resolved[1].name = "base.h"
    /\ resolved[12].name = "variable.h"

\* C3: with libsass3 on the default include path, searched first, every
\* directive resolves to the libsass4 file and the version macro is v4's.
C3_ResolvesToV4 ==
    v3Installed =>
        /\ SearchRoots[1] = "system"
        /\ \A i \in 1..Len(resolved) : resolved[i].edition = "v4"
        /\ v3Seen = {}
        /\ versionMacro # "v3"
        /\ Done => versionMacro = "v4"

C3_Witness ==
    /\ v3Installed
    /\ Done
    /\ Len(resolved) = 12
    /\ resolved[4] = [edition |-> "v4", name |-> "version.h"]
    /\ versionMacro = "v4"

\* C4: every directive names its header as libsass4/include/sass/<name>.h,
\* never by a path a libsass3 installation provides.
C4_PathQualified ==
    \A i \in IncludePositions(umbrella) :
        LET path == umbrella[i].path
        IN  /\ Len(path) = 4
            /\ SubSeq(path, 1, 3) = <<"libsass4", "include", "sass">>
            /\ path[4] \in Headers
            /\ path \notin V3Files
            /\ (i < pc \/ Done) => Resolve(path, TRUE) = Resolve(path, FALSE)

C4_Witness ==
    /\ v3Installed
    /\ pc = Len(umbrella)
    /\ umbrella[pc].path = <<"libsass4", "include", "sass", "variable.h">>
    /\ Len(resolved) = 11

Count(seq, x) == Cardinality({i \in 1..Len(seq) : seq[i] = x})

\* C5: the umbrella has no guard of its own; a second or later inclusion
\* processes all twelve directives, each a no-op, and declares nothing again:
\* the visible declarations stay those of one inclusion.
C5_Idempotent ==
    /\ ~HasOwnGuard(umbrella)
    /\ \A h \in Headers : Count(bodies, h) <= 1
    /\ pass >= 2 => /\ symbols = EngineSymbols
                    /\ Len(bodies) = 12
                    /\ noops = Len(resolved)
    /\ (pass >= 2 /\ Done) => noops = 12

C5_Witness ==
    /\ pass = 2
    /\ Done
    /\ noops = 12
    /\ symbols = EngineSymbols

\* C6: after one inclusion the declarations of all twelve groups are visible,
\* each group having a directive for its header, and a probe naming any group
\* finds it declared.
C6_Complete ==
    /\ \A r \in 1..Len(RoleOrder) :
          \E i \in IncludePositions(umbrella) :
              Role(Name(umbrella[i].path)) = RoleOrder[r]
    /\ Done => /\ \A r \in 1..Len(RoleOrder) :
                     \E s \in symbols : s.sym = RoleOrder[r]
               /\ probe # "undeclared"

C6_Witness ==
    /\ pass = 1
    /\ Done
    /\ probe = "variable"

\* C7: the umbrella is a comment and #include directives; every visible
\* symbol comes from an engine header, and after inclusion the visible set
\* is the union of what the twelve headers declare.
C7_NothingAdded ==
    /\ \A i \in 1..Len(umbrella) : umbrella[i].kind \in {"comment", "include"}
    /\ \A s \in symbols : s.from \in Headers /\ s.sym = Role(s.from)
    /\ \A g \in guards : g \in Headers
    /\ Done => symbols = EngineSymbols

C7_Witness ==
    /\ pass = 1
    /\ Done
    /\ umbrella[1].kind = "comment"
    /\ Cardinality(symbols) = 12
    /\ symbols = EngineSymbols

C9_AsStated ==
    (Done /\ diag = {}) => umbrella = Umbrella

\* C9 (amended): the listed order is a topological order of the dependency
\* relation, one of several: an order is processed without an undeclared
\* name exactly when every header comes after all headers it depends on.
C9_TopologicalNotUnique ==
    /\ umbrella = Umbrella => (diag = {} /\ Topological(umbrella))
    /\ Done => (diag = {} <=> Topological(umbrella))

C9_Witness ==
    /\ Done
    /\ diag = {}
    /\ umbrella = Exchange(Umbrella, "version.h", "error.h")
    /\ umbrella # Umbrella

\* C10: with libsass3 installed, every mutual include of a file libsass3 also
\* ships goes backwards to a header the umbrella listed earlier, so it is a
\* guarded no-op and no libsass3 content is processed.
C10_MutualIncludesBackward ==
    v3Installed =>
        /\ v3Seen = {}
        /\ \A k \in 1..Len(bodies) :
              \A d \in Deps(bodies[k]) :
                  Bare(d) \in V3Files =>
                      /\ <<bodies[k], d>> \in backward
                      /\ PosOf(umbrella, d) < PosOf(umbrella, bodies[k])
        /\ \A i \in IncludePositions(umbrella) :
              \A d \in {"version.h", "values.h"} :
                  i < PosOf(umbrella, d) => d \notin Deps(Name(umbrella[i].path))

C10_Witness ==
    /\ v3Installed
    /\ Done
    /\ <<"compiler.h", "values.h">> \in backward
    /\ <<"importer.h", "values.h">> \in backward
    /\ <<"version.h", "base.h">> \in backward
    /\ v3Seen = {}

====
